---- MODULE Spec2Model ----
(***************************************************************************)
(* Model of frontier_exploration::FrontierSearch                           *)
(* (src/explore/src/frontier_search.cpp).                                  *)
(*                                                                         *)
(* Lengths are integers in centimetres (the source uses double metres).    *)
(* A double that can be +inf or NaN is a record [cls, v] with              *)
(* cls \in {"fin", "inf", "ninf", "nan"}; sqrt is the integer floor root.  *)
(* The centroid sum/size is kept as the exact fractions x/d and y/d.        *)
(***************************************************************************)
EXTENDS Integers, Sequences, FiniteSets, TLC

\* ------------------------------------------------------------- the costmap
SizeX == 3
SizeY == 2
Resolution == 400
OriginX == -400
OriginY == -600

FREE_SPACE == 0
LETHAL_OBSTACLE == 254
NO_INFORMATION == 255

NumCells == SizeX * SizeY
Cells == 0 .. (NumCells - 1)
CellValues == {FREE_SPACE, LETHAL_OBSTACLE, NO_INFORMATION}

\* the bound on the obstacles of a drawn map
MaxLethal == 1

CharMaps ==
    {m \in [Cells -> CellValues] :
        Cardinality({c \in Cells : m[c] = LETHAL_OBSTACLE}) <= MaxLethal}

\* costmap_2d::Costmap2D::worldToMap: FALSE outside the map
WorldToMapOk(wx, wy) ==
    /\ wx >= OriginX
    /\ wy >= OriginY
    /\ (wx - OriginX) \div Resolution < SizeX
    /\ (wy - OriginY) \div Resolution < SizeY

WorldToMapX(wx) == (wx - OriginX) \div Resolution
WorldToMapY(wy) == (wy - OriginY) \div Resolution

\* costmap_2d::Costmap2D::getIndex
GetIndex(cx, cy) == cy * SizeX + cx

\* costmap_2d::Costmap2D::indexToCells
IndexToCellX(idx) == idx - (idx \div SizeX) * SizeX
IndexToCellY(idx) == idx \div SizeX

\* costmap_2d::Costmap2D::mapToWorld: the centre of the cell
MapToWorld(cx, cy) ==
    << OriginX + cx * Resolution + Resolution \div 2,
       OriginY + cy * Resolution + Resolution \div 2 >>

CellToWorld(idx) == MapToWorld(IndexToCellX(idx), IndexToCellY(idx))

WorldToIndex(p) == GetIndex(WorldToMapX(p[1]), WorldToMapY(p[2]))

\* ----------------------------------------------------------- costmap_tools
\* 4-connected neighbourhood of a cell, inside the map
nhood4(idx) ==
    (IF idx % SizeX > 0 THEN <<idx - 1>> ELSE <<>>)
    \o (IF idx % SizeX < SizeX - 1 THEN <<idx + 1>> ELSE <<>>)
    \o (IF idx >= SizeX THEN <<idx - SizeX>> ELSE <<>>)
    \o (IF idx < SizeX * (SizeY - 1) THEN <<idx + SizeX>> ELSE <<>>)

\* 8-connected neighbourhood of a cell, inside the map
nhood8(idx) ==
    nhood4(idx)
    \o (IF idx % SizeX > 0 /\ idx >= SizeX THEN <<idx - 1 - SizeX>> ELSE <<>>)
    \o (IF idx % SizeX > 0 /\ idx < SizeX * (SizeY - 1)
        THEN <<idx - 1 + SizeX>> ELSE <<>>)
    \o (IF idx % SizeX < SizeX - 1 /\ idx >= SizeX
        THEN <<idx + 1 - SizeX>> ELSE <<>>)
    \o (IF idx % SizeX < SizeX - 1 /\ idx < SizeX * (SizeY - 1)
        THEN <<idx + 1 + SizeX>> ELSE <<>>)

SeqToSet(s) == {s[i] : i \in 1 .. Len(s)}

\* ------------------------------------------------------------- arithmetic
RECURSIVE SqrtIter(_, _)
SqrtIter(n, r) ==
    IF r <= n \div r /\ r + 1 > n \div (r + 1) THEN r
    ELSE SqrtIter(n, (r + n \div r) \div 2)

\* sqrt, rounded down
Sqrt(n) == IF n = 0 THEN 0 ELSE SqrtIter(n, n)

\* sqrt(pow(ax - bx, 2.0) + pow(ay - by, 2.0))
Distance(a, b) ==
    Sqrt((a[1] - b[1]) * (a[1] - b[1]) + (a[2] - b[2]) * (a[2] - b[2]))

Fin(v) == [cls |-> "fin", v |-> v]
Infinity == [cls |-> "inf", v |-> 0]
NegInfinity == [cls |-> "ninf", v |-> 0]
NaN == [cls |-> "nan", v |-> 0]

\* a < b on doubles: FALSE whenever an operand is NaN
DLess(a, b) ==
    CASE a.cls = "nan" \/ b.cls = "nan" -> FALSE
      [] a.cls = "ninf" -> b.cls # "ninf"
      [] a.cls = "inf" -> FALSE
      [] OTHER -> (b.cls = "inf") \/ (b.cls = "fin" /\ a.v < b.v)

\* k * a for a finite k
DScale(k, a) ==
    CASE a.cls = "fin" -> Fin(k * a.v)
      [] a.cls = "nan" -> NaN
      [] k = 0 -> NaN
      [] (k > 0) = (a.cls = "inf") -> Infinity
      [] OTHER -> NegInfinity

\* a + k for a finite k
DAddFin(a, k) == IF a.cls = "fin" THEN Fin(a.v + k) ELSE a

\* ------------------------------------------------------------ the program
VARIABLES
    costmap,            \* the cells of *costmap_ (what map_ points to)
    potential_scale_,   \* constructor arguments
    gain_scale_,
    min_frontier_size_,
    weight,             \* static double weight of frontierCost
    flag,               \* static bool flag of frontierCost
    pc,                 \* position of searchFrom
    position,           \* the argument of searchFrom
    mx, my,             \* the locals worldToMap writes
    mutex,              \* TRUE while the lock_guard on the costmap mutex lives
    frontier_flag,
    visited_flag,
    bfs,                \* the queue of the outer traversal
    frontier_list,
    next_cost,          \* the range-for of line 91: index of the next frontier
    built,              \* every Frontier buildNewFrontier returned in this call
    returned,           \* the vector searchFrom returned
    diag                \* the diagnostic of the call: "none", "error", "warn"

vars ==
    << costmap, potential_scale_, gain_scale_, min_frontier_size_, weight, flag,
       pc, position, mx, my, mutex, frontier_flag, visited_flag, bfs,
       frontier_list, next_cost, built, returned, diag >>

config == << costmap, potential_scale_, gain_scale_, min_frontier_size_ >>

NoFlags == [c \in Cells |-> FALSE]

\* FrontierSearch::isNewFrontierCell
isNewFrontierCell(idx, ff) ==
    IF costmap[idx] # NO_INFORMATION \/ ff[idx] THEN FALSE
    ELSE \E i \in 1 .. Len(nhood4(idx)) : costmap[nhood4(idx)[i]] = FREE_SPACE

Unset == [cls |-> "unset", v |-> 0]

\* mutant of InitFrontier: the size counts the points only
InitFrontierSizeZero(initial_cell) ==
    [ initial |-> CellToWorld(initial_cell),
      centroid |-> [x |-> 0, y |-> 0, d |-> 1],
      size |-> 0,
      min_distance |-> Infinity,
      middle |-> <<0, 0>>,
      points |-> <<>>,
      cost |-> Unset ]

\* buildNewFrontier: the freshly initialised Frontier
InitFrontier(initial_cell) ==
    [ initial |-> CellToWorld(initial_cell),
      centroid |-> [x |-> 0, y |-> 0, d |-> 1],
      size |-> 1,
      min_distance |-> Infinity,
      middle |-> <<0, 0>>,
      points |-> <<>>,
      cost |-> Unset ]

\* buildNewFrontier: one accepted neighbour folded into the Frontier
AddCell(output, nbr, reference) ==
    LET w == CellToWorld(nbr)
        distance == Distance(CellToWorld(reference), w)
        closer == DLess(Fin(distance), output.min_distance)
    IN  [ output EXCEPT
            !.points = Append(@, w),
            !.size = @ + 1,
            !.centroid = [@ EXCEPT !.x = @ + w[1], !.y = @ + w[2]],
            !.min_distance = IF closer THEN Fin(distance) ELSE @,
            !.middle = IF closer THEN w ELSE @ ]

\* buildNewFrontier: the final division of the centroid by the size
Average(output) == [output EXCEPT !.centroid.d = output.size]

\* buildNewFrontier: the for loop over nhood8(idx); st = [q, output, ff]
RECURSIVE BuildNbrs(_, _, _, _)
BuildNbrs(nbrs, i, st, reference) ==
    IF i > Len(nbrs) THEN st
    ELSE IF isNewFrontierCell(nbrs[i], st.ff)
         THEN BuildNbrs(nbrs, i + 1,
                [ q |-> Append(st.q, nbrs[i]),
                  output |-> AddCell(st.output, nbrs[i], reference),
                  ff |-> [st.ff EXCEPT ![nbrs[i]] = TRUE] ],
                reference)
         ELSE BuildNbrs(nbrs, i + 1, st, reference)

\* mutant of BuildLoop: the region grows over the 4-connected neighbourhood
RECURSIVE BuildLoop4(_, _)
BuildLoop4(st, reference) ==
    IF st.q = <<>> THEN st
    ELSE BuildLoop4(BuildNbrs(nhood4(Head(st.q)), 1,
                              [st EXCEPT !.q = Tail(@)], reference),
                    reference)

\* buildNewFrontier: the while loop over its own queue
RECURSIVE BuildLoop(_, _)
BuildLoop(st, reference) ==
    IF st.q = <<>> THEN st
    ELSE BuildLoop(BuildNbrs(nhood8(Head(st.q)), 1,
                             [st EXCEPT !.q = Tail(@)], reference),
                   reference)

\* FrontierSearch::buildNewFrontier: [output, ff]
buildNewFrontier(initial_cell, reference, ff) ==
    LET st == BuildLoop([ q |-> <<initial_cell>>,
                          output |-> InitFrontier(initial_cell),
                          ff |-> ff ], reference)
    IN  [output |-> Average(st.output), ff |-> st.ff]

\* nearestCell: the breadth-first search over nhood8 for a cell of value val
RECURSIVE NearestLoop(_, _, _)
NearestLoop(q, seen, val) ==
    IF q = <<>> THEN [found |-> FALSE, cell |-> 0]
    ELSE IF costmap[Head(q)] = val THEN [found |-> TRUE, cell |-> Head(q)]
    ELSE LET nbrs == nhood8(Head(q))
             fresh == SelectSeq(nbrs, LAMBDA c : c \notin seen)
         IN  NearestLoop(Tail(q) \o fresh, seen \cup SeqToSet(fresh), val)

nearestCell(start, val) ==
    IF start >= NumCells THEN [found |-> FALSE, cell |-> 0]
    ELSE NearestLoop(<<start>>, {start}, val)

\* mutant of SeedCell: the result slot of nearestCell is used even on failure
SeedCellUnchecked(near, pos) == near.cell

\* searchFrom: the cell the outer traversal starts from
SeedCell(near, pos) == IF near.found THEN near.cell ELSE pos

\* mutant of MarkSeed: the seed is not flagged
MarkSeedSkipped(ff, nbr) == ff

\* searchFrom: frontier_flag[nbr] = true before the region is built
MarkSeed(ff, nbr) == [ff EXCEPT ![nbr] = TRUE]

\* mutant of Keep: the comparison is turned round
KeepReversed(frontier) == frontier.size * Resolution <= min_frontier_size_

\* searchFrom: the minimum-size filter
Keep(frontier) == frontier.size * Resolution >= min_frontier_size_

\* mutant of SearchNbrs: an admitted cell is queued but not marked visited
RECURSIVE SearchNbrsNoMark(_, _, _, _, _)
SearchNbrsNoMark(nbrs, i, idx, pos, st) ==
    IF i > Len(nbrs) THEN st
    ELSE LET nbr == nbrs[i] IN
      IF costmap[nbr] <= costmap[idx] /\ ~st.visited[nbr]
      THEN SearchNbrsNoMark(nbrs, i + 1, idx, pos,
             [st EXCEPT !.q = Append(@, nbr)])
      ELSE IF isNewFrontierCell(nbr, st.ff)
      THEN LET b == buildNewFrontier(nbr, pos, MarkSeed(st.ff, nbr))
           IN  SearchNbrsNoMark(nbrs, i + 1, idx, pos,
                 [st EXCEPT
                    !.ff = b.ff,
                    !.built = Append(@, b.output),
                    !.list = IF Keep(b.output) THEN Append(@, b.output) ELSE @])
      ELSE SearchNbrsNoMark(nbrs, i + 1, idx, pos, st)

\* mutant of SearchNbrs: the admission test compares the wrong way round
RECURSIVE SearchNbrsAscending(_, _, _, _, _)
SearchNbrsAscending(nbrs, i, idx, pos, st) ==
    IF i > Len(nbrs) THEN st
    ELSE LET nbr == nbrs[i] IN
      IF costmap[nbr] >= costmap[idx] /\ ~st.visited[nbr]
      THEN SearchNbrsAscending(nbrs, i + 1, idx, pos,
             [st EXCEPT !.visited[nbr] = TRUE, !.q = Append(@, nbr)])
      ELSE IF isNewFrontierCell(nbr, st.ff)
      THEN LET b == buildNewFrontier(nbr, pos, MarkSeed(st.ff, nbr))
           IN  SearchNbrsAscending(nbrs, i + 1, idx, pos,
                 [st EXCEPT
                    !.ff = b.ff,
                    !.built = Append(@, b.output),
                    !.list = IF Keep(b.output) THEN Append(@, b.output) ELSE @])
      ELSE SearchNbrsAscending(nbrs, i + 1, idx, pos, st)

\* mutant of SearchNbrs: the admission test is strict
RECURSIVE SearchNbrsStrict(_, _, _, _, _)
SearchNbrsStrict(nbrs, i, idx, pos, st) ==
    IF i > Len(nbrs) THEN st
    ELSE LET nbr == nbrs[i] IN
      IF costmap[nbr] < costmap[idx] /\ ~st.visited[nbr]
      THEN SearchNbrsStrict(nbrs, i + 1, idx, pos,
             [st EXCEPT !.visited[nbr] = TRUE, !.q = Append(@, nbr)])
      ELSE IF isNewFrontierCell(nbr, st.ff)
      THEN LET b == buildNewFrontier(nbr, pos, MarkSeed(st.ff, nbr))
           IN  SearchNbrsStrict(nbrs, i + 1, idx, pos,
                 [st EXCEPT
                    !.ff = b.ff,
                    !.built = Append(@, b.output),
                    !.list = IF Keep(b.output) THEN Append(@, b.output) ELSE @])
      ELSE SearchNbrsStrict(nbrs, i + 1, idx, pos, st)

\* searchFrom: the body of the for loop over nhood4(idx);
\* st = [visited, ff, q, list, built]
RECURSIVE SearchNbrs(_, _, _, _, _)
SearchNbrs(nbrs, i, idx, pos, st) ==
    IF i > Len(nbrs) THEN st
    ELSE LET nbr == nbrs[i] IN
      IF costmap[nbr] <= costmap[idx] /\ ~st.visited[nbr]
      THEN SearchNbrs(nbrs, i + 1, idx, pos,
             [st EXCEPT !.visited[nbr] = TRUE, !.q = Append(@, nbr)])
      ELSE IF isNewFrontierCell(nbr, st.ff)
      THEN LET b == buildNewFrontier(nbr, pos, MarkSeed(st.ff, nbr))
           IN  SearchNbrs(nbrs, i + 1, idx, pos,
                 [st EXCEPT
                    !.ff = b.ff,
                    !.built = Append(@, b.output),
                    !.list = IF Keep(b.output) THEN Append(@, b.output) ELSE @])
      ELSE SearchNbrs(nbrs, i + 1, idx, pos, st)

\* frontierCost: the avoid point, the thresholds and the weight, in cm
HumanX == -292
HumanY == -526
NearThreshold == 300
FarThreshold == 600
WeightOn == 3
NoiseStdDev == 20

\* one draw of std::normal_distribution(0, 0.2): zero or one deviation
NoiseSamples == {0 - NoiseStdDev, 0, NoiseStdDev}

RobotHuman(pose) == Distance(<<HumanX, HumanY>>, pose)

\* mutant of StickyUpdate: the far band re-arms the weight whatever the flag
StickyUpdateRearm(robot_human, w, f) ==
    IF robot_human < NearThreshold THEN [weight |-> 0, flag |-> f]
    ELSE IF robot_human < FarThreshold
         THEN [weight |-> WeightOn, flag |-> TRUE]
         ELSE [weight |-> w, flag |-> f]

\* mutant of StickyUpdate: the near band also clears the flag
StickyUpdateDisarm(robot_human, w, f) ==
    IF robot_human < NearThreshold THEN [weight |-> 0, flag |-> FALSE]
    ELSE IF robot_human < FarThreshold /\ f = FALSE
         THEN [weight |-> WeightOn, flag |-> TRUE]
         ELSE [weight |-> w, flag |-> f]

\* frontierCost: the update of the static weight and flag
StickyUpdate(robot_human, w, f) ==
    IF robot_human < NearThreshold THEN [weight |-> 0, flag |-> f]
    ELSE IF robot_human < FarThreshold /\ f = FALSE
         THEN [weight |-> WeightOn, flag |-> TRUE]
         ELSE [weight |-> w, flag |-> f]

\* frontierCost: the first two terms of the returned expression
BaseCost(frontier) ==
    DAddFin(DScale(Resolution, DScale(potential_scale_, frontier.min_distance)),
            0 - gain_scale_ * frontier.size * Resolution)

\* frontierCost: the returned expression, with the weight w it reads
CostValue(frontier, w, noise) ==
    LET frontier_human == Distance(<<HumanX, HumanY>>, frontier.middle) + noise
    IN  DAddFin(BaseCost(frontier), w * frontier_human * Resolution)

\* mutant of frontierCost: the weight is read before it is updated
frontierCostStale(frontier, pose, w, f, noise) ==
    LET s == StickyUpdate(RobotHuman(pose), w, f)
    IN  [cost |-> CostValue(frontier, w, noise),
         weight |-> s.weight, flag |-> s.flag]

\* FrontierSearch::frontierCost: [cost, weight, flag]
frontierCost(frontier, pose, w, f, noise) ==
    LET s == StickyUpdate(RobotHuman(pose), w, f)
    IN  [cost |-> CostValue(frontier, s.weight, noise),
         weight |-> s.weight, flag |-> s.flag]

\* std::sort with the comparator f1.cost < f2.cost: the orders it may leave
HasNaN(list) == \E i \in 1 .. Len(list) : list[i].cost.cls = "nan"

Ordered(list) ==
    \A i, j \in 1 .. Len(list) : i < j => ~DLess(list[j].cost, list[i].cost)

Reorder(list, p) == [i \in 1 .. Len(list) |-> list[p[i]]]

SortOutcomes(list) ==
    IF Len(list) = 0 THEN {<<>>}
    ELSE {r \in {Reorder(list, p) : p \in Permutations(1 .. Len(list))} :
            HasNaN(list) \/ Ordered(r)}

\* ------------------------------------------------------------- the inputs
PotentialScales == {0, 1}
GainScales == {1}
MinFrontierSizes == {Resolution, 2 * Resolution}

OutsidePoints ==
    { <<OriginX - Resolution \div 2, OriginY + Resolution \div 2>>,
      <<OriginX + SizeX * Resolution, OriginY + Resolution \div 2>> }

Positions == {CellToWorld(c) : c \in Cells} \cup OutsidePoints

Init ==
    /\ costmap \in CharMaps
    /\ potential_scale_ \in PotentialScales
    /\ gain_scale_ \in GainScales
    /\ min_frontier_size_ \in MinFrontierSizes
    /\ weight = 0
    /\ flag = FALSE
    /\ pc = "idle"
    /\ position = <<0, 0>>
    /\ mx = 0
    /\ my = 0
    /\ mutex = FALSE
    /\ frontier_flag = NoFlags
    /\ visited_flag = NoFlags
    /\ bfs = <<>>
    /\ frontier_list = <<>>
    /\ next_cost = 1
    /\ built = <<>>
    /\ returned = <<>>
    /\ diag = "none"

\* a caller invokes searchFrom(p)
Call ==
    /\ pc = "idle"
    /\ \E p \in Positions : position' = p
    /\ pc' = "check"
    /\ UNCHANGED << config, weight, flag, mx, my, mutex, frontier_flag,
                    visited_flag, bfs, frontier_list, next_cost, built,
                    returned, diag >>

\* mutant of BoundsCheck: the early return is missing, the cell is clamped
BoundsCheckNoReturn ==
    /\ pc = "check"
    /\ IF WorldToMapOk(position[1], position[2])
       THEN /\ mx' = WorldToMapX(position[1])
            /\ my' = WorldToMapY(position[2])
            /\ UNCHANGED diag
       ELSE /\ mx' = 0
            /\ my' = 0
            /\ diag' = "error"
    /\ pc' = "lock"
    /\ UNCHANGED << config, weight, flag, position, mutex, frontier_flag,
                    visited_flag, bfs, frontier_list, next_cost, built,
                    returned >>

\* searchFrom: the bounds check and its early return
BoundsCheck ==
    /\ pc = "check"
    /\ IF WorldToMapOk(position[1], position[2])
       THEN /\ mx' = WorldToMapX(position[1])
            /\ my' = WorldToMapY(position[2])
            /\ pc' = "lock"
            /\ UNCHANGED << returned, diag >>
       ELSE /\ returned' = <<>>
            /\ diag' = "error"
            /\ pc' = "done"
            /\ UNCHANGED << mx, my >>
    /\ UNCHANGED << config, weight, flag, position, mutex, frontier_flag,
                    visited_flag, bfs, frontier_list, next_cost, built >>

\* searchFrom: the lock, the flag arrays and the seed of the traversal
LockAndSeed ==
    /\ pc = "lock"
    /\ ~mutex
    /\ mutex' = TRUE
    /\ LET pos == GetIndex(mx, my)
           near == nearestCell(pos, FREE_SPACE)
           seed == SeedCell(near, pos)
       IN  /\ bfs' = <<seed>>
           /\ visited_flag' = [NoFlags EXCEPT ![seed] = TRUE]
           /\ diag' = IF near.found THEN diag ELSE "warn"
    /\ frontier_flag' = NoFlags
    /\ pc' = "bfs"
    /\ UNCHANGED << config, weight, flag, position, mx, my, frontier_list,
                    next_cost, built, returned >>

\* searchFrom: one iteration of the outer while loop
SearchStep ==
    /\ pc = "bfs"
    /\ bfs # <<>>
    /\ LET idx == Head(bfs)
           st == SearchNbrs(nhood4(idx), 1, idx, GetIndex(mx, my),
                            [ visited |-> visited_flag, ff |-> frontier_flag,
                              q |-> Tail(bfs), list |-> frontier_list,
                              built |-> built ])
       IN  /\ visited_flag' = st.visited
           /\ frontier_flag' = st.ff
           /\ bfs' = st.q
           /\ frontier_list' = st.list
           /\ built' = st.built
           /\ pc' = IF st.q = <<>> THEN "cost" ELSE "bfs"
    /\ next_cost' = 1
    /\ UNCHANGED << config, weight, flag, position, mx, my, mutex, returned,
                    diag >>

\* searchFrom: one iteration of the loop that sets the costs
CostStep ==
    /\ pc = "cost"
    /\ next_cost <= Len(frontier_list)
    /\ \E noise \in NoiseSamples :
         LET c == frontierCost(frontier_list[next_cost], position, weight,
                               flag, noise)
         IN  /\ frontier_list' =
                    [frontier_list EXCEPT ![next_cost].cost = c.cost]
             /\ weight' = c.weight
             /\ flag' = c.flag
    /\ next_cost' = next_cost + 1
    /\ UNCHANGED << config, pc, position, mx, my, mutex, frontier_flag,
                    visited_flag, bfs, built, returned, diag >>

\* mutant of SortAndReturn: the lock is not released on return
SortAndReturnKeepsLock ==
    /\ pc = "cost"
    /\ next_cost > Len(frontier_list)
    /\ returned' \in SortOutcomes(frontier_list)
    /\ pc' = "done"
    /\ UNCHANGED << config, weight, flag, position, mx, my, mutex,
                    frontier_flag, visited_flag, bfs, frontier_list,
                    next_cost, built, diag >>

\* searchFrom: std::sort, the return and the release of the lock
SortAndReturn ==
    /\ pc = "cost"
    /\ next_cost > Len(frontier_list)
    /\ returned' \in SortOutcomes(frontier_list)
    /\ mutex' = FALSE
    /\ pc' = "done"
    /\ UNCHANGED << config, weight, flag, position, mx, my, frontier_flag,
                    visited_flag, bfs, frontier_list, next_cost, built, diag >>

\* the caller has the result; the locals of the call are gone
Finish ==
    /\ pc = "done"
    /\ pc' = "idle"
    /\ frontier_flag' = NoFlags
    /\ visited_flag' = NoFlags
    /\ bfs' = <<>>
    /\ frontier_list' = <<>>
    /\ next_cost' = 1
    /\ built' = <<>>
    /\ returned' = <<>>
    /\ diag' = "none"
    /\ UNCHANGED << config, weight, flag, position, mx, my, mutex >>

Next ==
    \/ Call
    \/ BoundsCheck
    \/ LockAndSeed
    \/ SearchStep
    \/ CostStep
    \/ SortAndReturn
    \/ Finish

Spec == Init /\ [][Next]_vars

\* ------------------------------------------------------------- the claims
\* frontierCost is about to be evaluated for frontier_list[next_cost]
Evaluating == pc = "cost" /\ next_cost <= Len(frontier_list)

\* at least one frontier of the current call has been scored
Evaluated == pc = "cost" /\ next_cost > 1

InBand(pose) ==
    RobotHuman(pose) >= NearThreshold /\ RobotHuman(pose) < FarThreshold

\* C1, as stated: once the weight has been latched (flag set), an evaluation
\* with distance >= 3 uses weight 3 again, also after a dip below 3.
C1_RevertsAfterNear ==
    [][(Evaluating /\ flag /\ RobotHuman(position) >= NearThreshold)
         => weight' = WeightOn]_vars

\* C1, amended: once latched, an evaluation with distance < 3 sets the weight
\* to 0 for good: every later evaluation, at any distance, leaves it 0.
C1_ZeroAfterNear ==
    [][(flag /\ weight = 0) => (flag' /\ weight' = 0)]_vars

\* an in-band evaluation, after a latch and a dip, has used weight 0
C1_Witness ==
    Evaluated /\ flag /\ weight = 0 /\ InBand(position)

\* C2: an evaluation with distance < 3 uses weight 0: the cost it assigns is
\* the base cost, with no bias term.
C2_NearUsesZero ==
    [][(Evaluating /\ RobotHuman(position) < NearThreshold)
         => /\ weight' = 0
            /\ frontier_list'[next_cost].cost =
                 BaseCost(frontier_list[next_cost])]_vars

\* a near evaluation in the armed state has assigned a finite cost
C2_Witness ==
    /\ Evaluated
    /\ flag
    /\ RobotHuman(position) < NearThreshold
    /\ frontier_list[next_cost - 1].cost.cls = "fin"

\* C3: the flag starts unarmed with weight 0; the weight is 0 while unarmed;
\* the first in-band evaluation sets weight 3 and arms; nothing disarms; the
\* weight is only ever 0 or 3.
C3_ArmingOneWay ==
    /\ weight = 0 /\ ~flag
    /\ [][/\ flag => flag'
          /\ weight' \in {0, WeightOn}
          /\ ~flag' => weight' = 0
          /\ (~flag /\ flag') =>
                (Evaluating /\ InBand(position) /\ weight' = WeightOn)
          /\ (~flag /\ Evaluating /\ InBand(position)) =>
                (flag' /\ weight' = WeightOn)]_vars

\* armed, and a far evaluation has happened since
C3_Witness ==
    Evaluated /\ flag /\ RobotHuman(position) >= FarThreshold

\* the member cells of a Frontier: the initial cell, then the points
Members(f) == <<WorldToIndex(f.initial)>> \o
              [i \in 1 .. Len(f.points) |-> WorldToIndex(f.points[i])]

RECURSIVE SumX(_, _)
SumX(pts, i) == IF i > Len(pts) THEN 0 ELSE pts[i][1] + SumX(pts, i + 1)

RECURSIVE SumY(_, _)
SumY(pts, i) == IF i > Len(pts) THEN 0 ELSE pts[i][2] + SumY(pts, i + 1)

RECURSIVE AllMembers(_, _)
AllMembers(list, i) ==
    IF i > Len(list) THEN <<>> ELSE Members(list[i]) \o AllMembers(list, i + 1)

NoRepeat(s) == \A i, j \in 1 .. Len(s) : i # j => s[i] # s[j]

\* C4, as stated: the centroid of every Frontier buildNewFrontier produced is
\* the mean of its member cells, the initial cell included:
\* centroid * size = initial + sum(points), per coordinate.
C4_CentroidIsMean ==
    \A i \in 1 .. Len(built) :
        LET f == built[i] IN
        /\ f.centroid.x * f.size = f.centroid.d * (f.initial[1] + SumX(f.points, 1))
        /\ f.centroid.y * f.size = f.centroid.d * (f.initial[2] + SumY(f.points, 1))

\* C5: within one call no cell is a member of two Frontiers built in it,
\* retained or discarded, and no cell is twice in one Frontier.
C5_MembersDisjoint == NoRepeat(AllMembers(built, 1))

\* two regions were built, one of several cells, and one was discarded
C5_Witness ==
    /\ Len(built) >= 2
    /\ Len(frontier_list) < Len(built)
    /\ \E i \in 1 .. Len(built) : Len(built[i].points) >= 1

\* C6: every Frontier searchFrom keeps or returns has
\* size * resolution >= min_frontier_size, and no region below it is returned.
C6_MinSize ==
    /\ \A i \in 1 .. Len(frontier_list) :
          frontier_list[i].size * Resolution >= min_frontier_size_
    /\ \A i \in 1 .. Len(returned) :
          returned[i].size * Resolution >= min_frontier_size_
    /\ \A i \in 1 .. Len(built) :
          built[i].size * Resolution < min_frontier_size_ =>
             \A j \in 1 .. Len(returned) : returned[j].initial # built[i].initial

\* a call returned a Frontier and had discarded a smaller region
C6_Witness ==
    /\ pc = "done"
    /\ Len(returned) >= 1
    /\ \E i \in 1 .. Len(built) :
          built[i].size * Resolution < min_frontier_size_

\* a <= b on doubles: FALSE whenever an operand is NaN
DLessEq(a, b) == DLess(a, b) \/ (a.cls # "nan" /\ a = b)

\* C7, as stated: the returned sequence is sorted by non-decreasing cost and
\* is a permutation of the retained Frontiers with the costs of this call.
C7_SortedPermutation ==
    pc = "done" =>
      /\ \A i, j \in 1 .. Len(returned) :
            i < j => DLessEq(returned[i].cost, returned[j].cost)
      /\ Len(returned) = Len(frontier_list)
      /\ \A i \in 1 .. Len(frontier_list) :
            Cardinality({j \in 1 .. Len(returned) : returned[j] = frontier_list[i]})
              = Cardinality({j \in 1 .. Len(frontier_list) :
                               frontier_list[j] = frontier_list[i]})

\* C8: a position outside the map makes searchFrom return an empty sequence
\* with an error, and nothing else: no lock, no traversal, no scoring, the
\* static weight and flag untouched.
C8_OutOfBounds ==
    [][(pc = "check" /\ ~WorldToMapOk(position[1], position[2]))
         => /\ pc' = "done"
            /\ returned' = <<>>
            /\ diag' = "error"
            /\ UNCHANGED << weight, flag, mutex, visited_flag, frontier_flag,
                            bfs, frontier_list, built >>
            /\ built = <<>> /\ bfs = <<>> /\ ~mutex
            /\ visited_flag = NoFlags /\ frontier_flag = NoFlags]_vars

\* an out-of-bounds call has returned while the weight was armed
C8_Witness ==
    pc = "done" /\ diag = "error" /\ flag /\ weight = WeightOn

\* C9: when nearestCell fails, the traversal starts at the robot's own cell,
\* the only cell visited and queued, and the call goes on to the traversal
\* (and from there to the filter, the costs, the sort and the return).
C9_FallbackSeed ==
    /\ [][(pc = "lock" /\ ~nearestCell(GetIndex(mx, my), FREE_SPACE).found)
            => /\ pc' = "bfs"
               /\ bfs' = <<GetIndex(mx, my)>>
               /\ visited_flag' = [NoFlags EXCEPT ![GetIndex(mx, my)] = TRUE]
               /\ frontier_list' = <<>>
               /\ diag' = "warn"]_vars
    /\ [][(diag = "warn" /\ pc # "done")
            => (diag' = "warn" /\ pc' \in {"bfs", "cost", "done"})]_vars

\* a call whose nearestCell failed has traversed several cells and returned
C9_Witness ==
    /\ pc = "done"
    /\ diag = "warn"
    /\ GetIndex(mx, my) # 0
    /\ Cardinality({c \in Cells : visited_flag[c]}) > 1

\* C10: for every Frontier buildNewFrontier produced, size = |points| + 1 is
\* the number of distinct member cells; points holds each accepted cell once
\* and never the initial cell.
C10_SizeCountsMembers ==
    \A i \in 1 .. Len(built) :
        LET f == built[i] IN
        /\ f.size = Len(f.points) + 1
        /\ f.size = Cardinality(SeqToSet(Members(f)))
        /\ NoRepeat(Members(f))

\* a region of at least three cells was built
C10_Witness ==
    \E i \in 1 .. Len(built) : Len(built[i].points) >= 2

\* the reference position of the regions of the call: the robot's cell
Reference == CellToWorld(GetIndex(mx, my))

\* C11, as stated: for every Frontier buildNewFrontier produced, a region of
\* the initial cell alone included, min_distance is finite and is the least
\* distance from the reference to a member cell, and middle is the world
\* coordinate of a member cell at that distance.
C11_MiddleIsNearest ==
    \A i \in 1 .. Len(built) :
        LET f == built[i] IN
        /\ f.min_distance.cls = "fin"
        /\ \E k \in 1 .. Len(Members(f)) : CellToWorld(Members(f)[k]) = f.middle
        /\ f.min_distance.v = Distance(Reference, f.middle)
        /\ \A k \in 1 .. Len(Members(f)) :
              f.min_distance.v <= Distance(Reference, CellToWorld(Members(f)[k]))

\* C12, as stated: searchFrom never acquires or releases the costmap mutex;
\* the lock state is the same at every point of a call.
C12_LockUntouched == [][mutex' = mutex]_vars

\* C12, amended: searchFrom takes the mutex itself once the bounds check has
\* passed, holds it through traversal, scoring and sort, and has released it
\* when it returns; an out-of-bounds call never holds it.
C12_ScopedLock ==
    /\ mutex <=> pc \in {"bfs", "cost"}
    /\ diag = "error" => ~mutex

\* a call that held the lock over a traversal has returned a Frontier
C12_Witness ==
    pc = "done" /\ ~mutex /\ Len(returned) >= 1

Unvisited == Cardinality({c \in Cells : ~visited_flag[c]})

\* a call is between its entry and its return
Active == pc \in {"check", "lock", "bfs", "cost"}

\* what is left of a call: 0 once it has returned
Rank ==
    CASE pc = "check" -> 3 * NumCells + 4
      [] pc = "lock" -> 3 * NumCells + 3
      [] pc = "bfs" -> NumCells + 2 + Len(bfs) + Unvisited
      [] pc = "cost" -> Len(frontier_list) + 2 - next_cost
      [] OTHER -> 0

\* the condition under which the next step of the call can be taken
CanStep ==
    CASE pc = "lock" -> ~mutex
      [] pc = "bfs" -> bfs # <<>>
      [] pc = "cost" -> next_cost <= Len(frontier_list) + 1
      [] OTHER -> TRUE

\* C14: every call terminates: each step of a call lowers Rank, which is
\* never negative, and the next step can always be taken. In the outer
\* traversal a cell is marked visited when it is pushed and only unvisited
\* cells are pushed, so the queue never holds a cell twice; every cell pushed
\* on a region queue is a member of that region, and no cell is a member
\* twice in one call.
C14_Terminates ==
    /\ [][Active => (Rank' < Rank /\ Rank' >= 0 /\ CanStep')]_vars
    /\ [][pc = "bfs" =>
            /\ \A k \in 1 .. Len(bfs') : visited_flag'[bfs'[k]]
            /\ NoRepeat(bfs')
            /\ \A k \in Len(bfs) .. Len(bfs') : ~visited_flag[bfs'[k]]
            /\ \A c \in Cells : visited_flag[c] => visited_flag'[c]
            /\ NoRepeat(AllMembers(built', 1))]_vars

\* a call that visited every cell of the map and built a region has returned
C14_Witness ==
    /\ pc = "done"
    /\ Unvisited <= 2
    /\ Len(built) >= 1

\* the cell the outer traversal of the call was seeded at
Anchor ==
    SeedCell(nearestCell(GetIndex(mx, my), FREE_SPACE), GetIndex(mx, my))

\* no visited cell has a value above the anchor's
VisitedBelowAnchor ==
    pc \in {"bfs", "cost", "done"} =>
       \A c \in Cells : visited_flag[c] => costmap[c] <= costmap[Anchor]

\* C15: a cell is marked visited in the traversal only as a 4-neighbour of
\* the cell being expanded with a value <= that cell's; no visited cell has
\* a value above the anchor's (only Free cells when the anchor is Free); and
\* no visited flag is cleared while the call lasts.
C15_DescendingAdmission ==
    /\ [][pc = "bfs" =>
            \A c \in Cells :
               (visited_flag'[c] /\ ~visited_flag[c]) =>
                  /\ c \in SeqToSet(nhood4(Head(bfs)))
                  /\ costmap[c] <= costmap[Head(bfs)]]_vars
    /\ [][(pc \in {"bfs", "cost"}) =>
            (\A c \in Cells : visited_flag[c] => visited_flag'[c])]_vars
    /\ []VisitedBelowAnchor

\* a traversal seeded on an Unknown cell has gone down to a lethal cell
C15_Witness ==
    /\ pc = "done"
    /\ costmap[Anchor] = NO_INFORMATION
    /\ \E c \in Cells : visited_flag[c] /\ costmap[c] = LETHAL_OBSTACLE

\* the cell buildNewFrontier was invoked on for Frontier f
SeedOf(f) == WorldToIndex(f.initial)

\* C16: within one call buildNewFrontier is never invoked on a cell whose
\* frontier flag was already set: its seed was unflagged before the step and
\* is no member (seed or point) of a region built earlier in the call, so no
\* cell is a seed twice; and no frontier flag is cleared while the call lasts.
C16_SeedOnce ==
    /\ [][pc = "bfs" =>
            /\ \A c \in Cells : frontier_flag[c] => frontier_flag'[c]
            /\ \A k \in (Len(built) + 1) .. Len(built') :
                  /\ ~frontier_flag[SeedOf(built'[k])]
                  /\ frontier_flag'[SeedOf(built'[k])]
                  /\ \A j \in 1 .. (k - 1) :
                        SeedOf(built'[k]) \notin SeqToSet(Members(built'[j]))]_vars
    /\ [][pc = "cost" =>
            (\A c \in Cells : frontier_flag[c] => frontier_flag'[c])]_vars

\* a cell absorbed as a point of a region lies next to a visited Free cell,
\* so it was tested as a seed again, and the call built two regions
C16_Witness ==
    /\ pc = "done"
    /\ Len(built) >= 2
    /\ \E i \in 1 .. Len(built) : \E k \in 1 .. Len(built[i].points) :
          \E n \in SeqToSet(nhood4(WorldToIndex(built[i].points[k]))) :
             visited_flag[n] /\ costmap[n] = FREE_SPACE

\* an Unknown cell with a 4-connected Free neighbour
FrontierCell(c) ==
    /\ costmap[c] = NO_INFORMATION
    /\ \E n \in SeqToSet(nhood4(c)) : costmap[n] = FREE_SPACE

\* the cells of S reachable from R by 8-connected steps inside S
RECURSIVE Grow(_, _)
Grow(S, R) ==
    LET more == {n \in S \ R : \E m \in R : n \in SeqToSet(nhood8(m))}
    IN  IF more = {} THEN R ELSE Grow(S, R \cup more)

MemberSet(f) == SeqToSet(Members(f))

\* C17: every region built is a set of frontier cells, 8-connected to its
\* seed through its own members, that leaves out no frontier cell 8-adjacent
\* to a member; so no two regions of one call hold 8-adjacent cells.
C17_RegionIsComponent ==
    \A i \in 1 .. Len(built) :
        LET M == MemberSet(built[i]) IN
        /\ \A m \in M : FrontierCell(m)
        /\ Grow(M, {SeedOf(built[i])}) = M
        /\ \A m \in M : \A n \in SeqToSet(nhood8(m)) : FrontierCell(n) => n \in M
        /\ \A j \in 1 .. Len(built) :
              j # i => \A m \in M : \A n \in MemberSet(built[j]) :
                          n \notin SeqToSet(nhood8(m))

\* a region holds a cell that touches the rest of it only diagonally
C17_Witness ==
    \E i \in 1 .. Len(built) :
        LET M == MemberSet(built[i]) IN
        /\ Cardinality(M) >= 2
        /\ \E m \in M : \A n \in M : n \notin SeqToSet(nhood4(m))

\* the Free cells reachable from R by 4-connected steps through Free cells
RECURSIVE FreeReach(_)
FreeReach(R) ==
    LET more == {n \in Cells \ R :
                   /\ costmap[n] = FREE_SPACE
                   /\ \E m \in R : n \in SeqToSet(nhood4(m))}
    IN  IF more = {} THEN R ELSE FreeReach(R \cup more)

\* C18: when the anchor is Free, once the outer traversal has ended every
\* Unknown cell 4-adjacent to a Free cell reachable from the anchor through
\* Free cells is frontier-flagged and is a member of a region built in the
\* call, retained or not.
C18_AllFrontierCellsFound ==
    (pc \in {"cost", "done"} /\ diag # "error" /\ costmap[Anchor] = FREE_SPACE)
      => \A c \in Cells :
            (/\ costmap[c] = NO_INFORMATION
             /\ \E n \in SeqToSet(nhood4(c)) : n \in FreeReach({Anchor}))
            => /\ frontier_flag[c]
               /\ \E i \in 1 .. Len(built) : c \in MemberSet(built[i])

\* a traversal from a Free anchor through several Free cells has ended with
\* regions built and every one of them discarded
C18_Witness ==
    /\ pc = "done"
    /\ costmap[Anchor] = FREE_SPACE
    /\ Cardinality(FreeReach({Anchor})) >= 3
    /\ Len(built) >= 2
    /\ Len(frontier_list) = 0

\* the mapping subsystem, another thread: under the costmap mutex it rewrites
\* one cell of the map. A write after the call has returned reads the same
\* as one after Finish, which does not look at the map, so it is taken then.
MapperUpdate ==
    /\ ~mutex
    /\ pc # "done"
    /\ \E c \in Cells, v \in CellValues :
          /\ costmap' = [costmap EXCEPT ![c] = v]
          /\ costmap' # costmap
          /\ costmap' \in CharMaps
    /\ UNCHANGED << potential_scale_, gain_scale_, min_frontier_size_, weight,
                    flag, pc, position, mx, my, mutex, frontier_flag,
                    visited_flag, bfs, frontier_list, next_cost, built,
                    returned, diag >>

NextWithMapper ==
    \/ Next
    \/ MapperUpdate

SpecMapper == Init /\ [][NextWithMapper]_vars

\* C19, as stated: every read of the map by a call, the bounds check
\* included, is made under the mutex, so the map does not change between the
\* bounds check and the end of the traversal that uses it; and the mutex is
\* not held once searchFrom has returned.
C19_MapStableInCall ==
    [][/\ (pc \in {"lock", "bfs", "cost"}) => costmap' = costmap
       /\ pc' = "done" => ~mutex']_vars

\* C20: every evaluation of frontierCost leaves weight and flag at a fixed
\* point of the update for the pose of the call, sets the cost from the
\* weight it has just updated, and from the second frontier of a call on
\* leaves weight and flag as the first evaluation left them.
C20_UpdateIdempotent ==
    [][Evaluating =>
         /\ StickyUpdate(RobotHuman(position), weight', flag')
              = [weight |-> weight', flag |-> flag']
         /\ \E noise \in NoiseSamples :
              frontier_list'[next_cost].cost
                = CostValue(frontier_list[next_cost], weight', noise)
         /\ next_cost > 1 => (weight' = weight /\ flag' = flag)]_vars

\* two frontiers of one call have been scored with the weight the first
\* evaluation armed
C20_Witness ==
    /\ pc = "cost"
    /\ next_cost > 2
    /\ InBand(position)
    /\ weight = WeightOn
    /\ frontier_list[1].cost.cls = "fin"
    /\ frontier_list[2].cost.cls = "fin"

====
